---- MODULE Spec2Model ----
(***************************************************************************)
(* Model of src/src/cache.rs: the intrusive recency list LRUList<T> and    *)
(* the capacity-bounded Cache<T> built on it.                              *)
(*                                                                         *)
(* Memory is modelled as cells.  Every node address has a next, prev and   *)
(* data cell; `alloc` is the set of addresses that currently hold a live   *)
(* Box.  Freeing a Box removes its address from `alloc` and leaves the     *)
(* cells as they were (stale); a later allocation may return any address   *)
(* that is not in `alloc`, a freed one included.  A raw pointer that       *)
(* outlives its Box therefore reads either the stale node or the node that *)
(* reuses the address: both outcomes are reachable.                        *)
(*                                                                         *)
(* The address space is unbounded in the program and bounded here, so an   *)
(* address that no pointer can reach any more (not from the sentinel, not  *)
(* from a handle in the map, through any chain of next / prev links) is    *)
(* returned to the pool with its cells cleared: nothing can read it again, *)
(* and Box::new overwrites all three cells of the address it returns.      *)
(*                                                                         *)
(* The Cache value itself stays at one address: the nodes point at the     *)
(* sentinel inside it, and no operation of this file moves it.             *)
(*                                                                         *)
(* A panic ends the run: status records which one (the assert! and panic!  *)
(* of Cache::insert, an unwrap of None, the asserts of reinsert_front, a   *)
(* count -= 1 at count 0) and no call follows it.                          *)
(*                                                                         *)
(* Four specifications share the variables: Spec (the cache under insert,  *)
(* get and remove), RefSpec (the cache under insert of absent keys and     *)
(* get, beside a reference LRU), ListSpec (the list alone, driven by a     *)
(* caller that keeps the handles) and NoRemoveSpec (ListSpec without       *)
(* remove(handle)).                                                        *)
(***************************************************************************)
EXTENDS Integers, Sequences, FiniteSets, TLC

\* ---- bounds ----
MaxNodes == 3
MaxCap == 2
NumKeys == 3
NumVals == 2

\* ---- encoding of the source's types ----
HEAD == 0                \* address of LRUList.head, the sentinel
NULL == -1               \* Option::None in a next / prev link
NoData == 0              \* Option::None in LRUNode.data
NoVal == 0               \* Option::None returned by Cache::get / Cache::remove
Keys == 1..NumKeys
Vals == 1..NumVals
Heap == 1..MaxNodes
Nodes == 0..MaxNodes
NoEntry == [val |-> NoVal, h |-> NULL]

VARIABLES list, map, cap, status, lru, gotten, hist, last

vars == <<list, map, cap, status, lru, gotten, hist, last>>

\* ---- LRUList ----

LRUList_new ==
  [next |-> [n \in Nodes |-> NULL],
   prev |-> [n \in Nodes |-> NULL],
   data |-> [n \in Nodes |-> NoData],
   alloc |-> {},
   count |-> 0]

\* mem::swap of two next cells / two prev cells (same cell twice: no change)
SwapNext(l, a, b) ==
  [l EXCEPT !.next = [@ EXCEPT ![a] = l.next[b], ![b] = l.next[a]]]

SwapPrev(l, a, b) ==
  [l EXCEPT !.prev = [@ EXCEPT ![a] = l.prev[b], ![b] = l.prev[a]]]

\* the nodes a Box owns through next links: what dropping the Box frees
RECURSIVE Chain(_, _, _)
Chain(nextf, n, seen) ==
  IF n = NULL \/ n \in seen THEN seen
  ELSE Chain(nextf, nextf[n], seen \cup {n})

\* LRUList::insert without line 43: the old front's prev link is not updated
LRUList_insert_noprev(l, n, elem) ==
  LET new == [l EXCEPT !.count = @ + 1, !.alloc = @ \cup {n},
                       !.data[n] = elem, !.next[n] = NULL, !.prev[n] = HEAD]
  IN IF l.next[HEAD] # NULL
     THEN LET l2 == [new EXCEPT !.next[n] = new.next[HEAD]]
          IN [l |-> [l2 EXCEPT !.next[HEAD] = n], touched |-> {}]
     ELSE [l |-> [new EXCEPT !.prev[HEAD] = n, !.next[HEAD] = n],
           touched |-> {}]

\* LRUList::insert; n is the address Box::new returns
LRUList_insert(l, n, elem) ==
  LET new == [l EXCEPT !.count = @ + 1, !.alloc = @ \cup {n},
                       !.data[n] = elem, !.next[n] = NULL, !.prev[n] = HEAD]
  IN IF l.next[HEAD] # NULL
     THEN LET first == new.next[HEAD]
              l1 == [new EXCEPT !.prev[first] = n]
              l2 == [l1 EXCEPT !.next[n] = l1.next[HEAD]]
          IN [l |-> [l2 EXCEPT !.next[HEAD] = n], touched |-> {first}]
     ELSE [l |-> [new EXCEPT !.prev[HEAD] = n, !.next[HEAD] = n],
           touched |-> {}]

\* LRUList::remove_last without line 74: head.prev stays on the node taken
LRUList_remove_last_keeptail(l) ==
  IF l.prev[HEAD] = NULL
  THEN [l |-> l, ret |-> NoData, panic |-> "none", touched |-> {}]
  ELSE LET t == l.prev[HEAD] IN
       IF l.prev[t] = NULL
       THEN [l |-> l, ret |-> NoData, panic |-> "unwrap", touched |-> {t}]
       ELSE LET p == l.prev[t]
                lasto == l.next[p]
                l1 == [l EXCEPT !.next[p] = NULL]
            IN IF lasto = NULL
               THEN [l |-> l1, ret |-> NoData, panic |-> "none",
                     touched |-> {t, p}]
               ELSE LET l2 == [l1 EXCEPT !.count = @ - 1]
                        l3 == [l2 EXCEPT !.data[lasto] = NoData]
                        dropped == Chain(l3.next, lasto, {})
                    IN [l |-> [l3 EXCEPT !.alloc = @ \ dropped],
                        ret |-> l2.data[lasto],
                        panic |-> IF l1.count = 0 THEN "overflow" ELSE "none",
                        touched |-> {t, p} \cup dropped]

LRUList_remove_last(l) ==
  IF l.prev[HEAD] = NULL
  THEN [l |-> l, ret |-> NoData, panic |-> "none", touched |-> {}]
  ELSE LET t == l.prev[HEAD] IN
       IF l.prev[t] = NULL
       THEN [l |-> l, ret |-> NoData, panic |-> "unwrap", touched |-> {t}]
       ELSE LET p == l.prev[t]
                lasto == l.next[p]
                l1 == [l EXCEPT !.next[p] = NULL]
            IN IF lasto = NULL
               THEN [l |-> l1, ret |-> NoData, panic |-> "none",
                     touched |-> {t, p}]
               ELSE LET l2 == [l1 EXCEPT !.prev[HEAD] = l1.prev[lasto],
                                         !.count = @ - 1]
                        l3 == [l2 EXCEPT !.data[lasto] = NoData]
                        dropped == Chain(l3.next, lasto, {})
                    IN [l |-> [l3 EXCEPT !.alloc = @ \ dropped],
                        ret |-> l2.data[lasto],
                        panic |-> IF l1.count = 0 THEN "overflow" ELSE "none",
                        touched |-> {t, p} \cup dropped]

LRUList_remove(l, h) ==
  LET nx == l.next[h]
      l1 == IF nx # NULL THEN SwapPrev(l, nx, h) ELSE l
      pv == l1.prev[h]
      l2 == IF pv # NULL THEN SwapNext(l1, pv, h) ELSE l1
      l3 == [l2 EXCEPT !.count = @ - 1]
  IN [l |-> [l3 EXCEPT !.data[h] = NoData],
      ret |-> l3.data[h],
      panic |-> IF l2.count = 0 THEN "overflow"
                ELSE IF l3.data[h] = NoData THEN "unwrap" ELSE "none",
      touched |-> {h, pv} \cup (IF nx # NULL THEN {nx} ELSE {})]

\* LRUList::reinsert_front without lines 115-118: promoting the back node
\* does not move head.prev to its predecessor
LRUList_reinsert_front_notail(l, h) ==
  IF l.prev[h] = NULL
  THEN [l |-> l, panic |-> "unwrap", touched |-> {h}]
  ELSE LET prevp == l.prev[h]
           nx == l.next[h]
           l1 == IF nx # NULL THEN [l EXCEPT !.prev[nx] = prevp] ELSE l
           l2 == SwapNext(l1, prevp, h)
           l3 == SwapNext(l2, h, HEAD)
           newnext == l3.next[h]
           l4 == IF newnext # NULL
                 THEN [[l3 EXCEPT !.prev[h] = l3.prev[newnext]]
                         EXCEPT !.prev[newnext] = h]
                 ELSE [l3 EXCEPT !.prev[HEAD] = h]
       IN [l |-> l4,
           panic |-> IF l4.next[HEAD] = NULL \/ l4.prev[HEAD] = NULL
                     THEN "front_assert" ELSE "none",
           touched |-> {h, prevp}
                       \cup (IF nx # NULL THEN {nx} ELSE {})
                       \cup (IF newnext # NULL THEN {newnext} ELSE {})]

LRUList_reinsert_front(l, h) ==
  IF l.prev[h] = NULL
  THEN [l |-> l, panic |-> "unwrap", touched |-> {h}]
  ELSE LET prevp == l.prev[h]
           nx == l.next[h]
           l1 == IF nx # NULL THEN [l EXCEPT !.prev[nx] = prevp]
                 ELSE [l EXCEPT !.prev[HEAD] = prevp]
           l2 == SwapNext(l1, prevp, h)
           l3 == SwapNext(l2, h, HEAD)
           newnext == l3.next[h]
           l4 == IF newnext # NULL
                 THEN [[l3 EXCEPT !.prev[h] = l3.prev[newnext]]
                         EXCEPT !.prev[newnext] = h]
                 ELSE [l3 EXCEPT !.prev[HEAD] = h]
       IN [l |-> l4,
           panic |-> IF l4.next[HEAD] = NULL \/ l4.prev[HEAD] = NULL
                     THEN "front_assert" ELSE "none",
           touched |-> {h, prevp}
                       \cup (IF nx # NULL THEN {nx} ELSE {})
                       \cup (IF newnext # NULL THEN {newnext} ELSE {})]

LRUList_count(l) == l.count

\* an access through a pointer whose Box is gone
Dangling(l, touched) == (touched \ {HEAD, NULL}) \ l.alloc # {}

\* the addresses some pointer chain starting at the roots still leads to
RECURSIVE Reach(_, _)
Reach(l, r) ==
  LET r1 == r \cup (({l.next[n] : n \in r} \cup {l.prev[n] : n \in r}) \ {NULL})
  IN IF r1 = r THEN r ELSE Reach(l, r1)

Roots(m) == {HEAD} \cup ({m[k].h : k \in DOMAIN m} \ {NULL})

\* clear the cells no pointer can reach
Collect(l, m) ==
  LET r == Reach(l, Roots(m))
  IN [next |-> [n \in Nodes |-> IF n \in r THEN l.next[n] ELSE NULL],
      prev |-> [n \in Nodes |-> IF n \in r THEN l.prev[n] ELSE NULL],
      data |-> [n \in Nodes |-> IF n \in r THEN l.data[n] ELSE NoData],
      alloc |-> l.alloc \cap r,
      count |-> l.count]

\* the addresses Box::new may return: a freed address some pointer still
\* refers to, or an address nothing refers to (all alike: the lowest)
BoxNew(l, m) ==
  LET free == Heap \ l.alloc
      stale == free \cap Reach(l, Roots(m))
      fresh == free \ stale
  IN stale \cup (IF fresh = {} THEN {}
                 ELSE {CHOOSE n \in fresh : \A o \in fresh : n <= o})

\* ---- Cache ----

Cache_new(capacity) ==
  [list |-> LRUList_new, map |-> [k \in Keys |-> NoEntry], cap |-> capacity]

Live == {k \in Keys : map[k] # NoEntry}

Cache_count == LRUList_count(list)

Cache_cap == cap

\* line 191 with > for >=
AtCapacity_gt(l, c) == LRUList_count(l) > c

\* the test of line 191
AtCapacity(l, c) == LRUList_count(l) >= c

\* Cache::insert up to the point where it allocates: the eviction
Cache_insert_evict(l, m, c) ==
  IF ~AtCapacity(l, c)
  THEN [l |-> l, m |-> m, evicted |-> NoData, panic |-> "none",
        touched |-> {}]
  ELSE LET rl == LRUList_remove_last(l)
           removed_key == rl.ret
       IN [l |-> rl.l,
           m |-> IF removed_key # NoData
                 THEN [m EXCEPT ![removed_key] = NoEntry] ELSE m,
           evicted |-> removed_key,
           panic |-> IF rl.panic # "none" THEN rl.panic
                     ELSE IF removed_key = NoData THEN "could_not_remove_last"
                     ELSE IF m[removed_key] = NoEntry THEN "map_remove_assert"
                     ELSE "none",
           touched |-> rl.touched]

\* lines 199-200 with the old node of a key that is present removed first
Cache_insert_store_replace(l, m, key, elem, n) ==
  LET l0 == IF m[key] # NoEntry THEN LRUList_remove(l, m[key].h).l ELSE l
      ins == LRUList_insert(l0, n, key)
  IN [l |-> ins.l, m |-> [m EXCEPT ![key] = [val |-> elem, h |-> n]],
      touched |-> ins.touched]

\* Cache::insert after the eviction: lines 199-200
Cache_insert_store(l, m, key, elem, n) ==
  LET ins == LRUList_insert(l, n, key)
  IN [l |-> ins.l, m |-> [m EXCEPT ![key] = [val |-> elem, h |-> n]],
      touched |-> ins.touched]

\* Cache::get without line 208: a hit does not move the node to the front
Cache_get_nopromote(l, m, key) ==
  IF m[key] = NoEntry
  THEN [l |-> l, res |-> NoVal, panic |-> "none", touched |-> {}]
  ELSE [l |-> l, res |-> m[key].val, panic |-> "none", touched |-> {}]

Cache_get(l, m, key) ==
  IF m[key] = NoEntry
  THEN [l |-> l, res |-> NoVal, panic |-> "none", touched |-> {}]
  ELSE LET rf == LRUList_reinsert_front(l, m[key].h)
       IN [l |-> rf.l,
           res |-> IF rf.panic # "none" THEN NoVal ELSE m[key].val,
           panic |-> rf.panic, touched |-> rf.touched]

\* Cache::remove that counts down before it looks the key up
Cache_remove_eager(l, m, key) ==
  LET l0 == [l EXCEPT !.count = @ - 1] IN
  IF m[key] = NoEntry
  THEN [l |-> l0, m |-> m, res |-> NoVal, panic |-> "none", touched |-> {}]
  ELSE LET rm == LRUList_remove(l, m[key].h)
       IN [l |-> rm.l, m |-> [m EXCEPT ![key] = NoEntry],
           res |-> IF rm.panic # "none" THEN NoVal ELSE m[key].val,
           panic |-> rm.panic, touched |-> rm.touched]

Cache_remove(l, m, key) ==
  IF m[key] = NoEntry
  THEN [l |-> l, m |-> m, res |-> NoVal, panic |-> "none", touched |-> {}]
  ELSE LET rm == LRUList_remove(l, m[key].h)
       IN [l |-> rm.l, m |-> [m EXCEPT ![key] = NoEntry],
           res |-> IF rm.panic # "none" THEN NoVal ELSE m[key].val,
           panic |-> rm.panic, touched |-> rm.touched]

\* ---- history variables ----

\* s without key k
RECURSIVE Without(_, _)
Without(s, k) ==
  IF s = <<>> THEN <<>>
  ELSE IF Head(s) = k THEN Without(Tail(s), k)
       ELSE <<Head(s)>> \o Without(Tail(s), k)

\* lru: the live keys, most recently inserted or hit first
\* gotten: the live keys whose latest insert or hit was a get
Oldest == IF lru = <<>> THEN NoData ELSE lru[Len(lru)]

\* hist: the inserts so far, while the run is inserts of distinct keys only
Dirty == [clean |-> FALSE, ins |-> <<>>]

\* last: the call that led to this state; live: its key was in the map when
\* it was made; full: it was made at capacity
Record(op, live, full) == [op |-> op, live |-> live, full |-> full]

Status(panic) == IF panic = "none" THEN "ok" ELSE panic

\* ---- the state machine ----

Init ==
  /\ \E capacity \in 1..MaxCap :
       LET c == Cache_new(capacity) IN
       /\ list = c.list
       /\ map = c.map
       /\ cap = c.cap
  /\ status = "ok"
  /\ lru = <<>>
  /\ gotten = {}
  /\ hist = [clean |-> TRUE, ins |-> <<>>]
  /\ last = Record("new", FALSE, FALSE)

Insert(key, elem, n) ==
  /\ status = "ok"
  /\ LET ev == Cache_insert_evict(list, map, cap)
         lru1 == IF ev.evicted # NoData THEN Without(lru, ev.evicted) ELSE lru
     IN /\ IF ev.panic # "none"
           THEN /\ status' = ev.panic
                /\ map' = ev.m
                /\ list' = Collect(ev.l, map')
                /\ lru' = lru1
                /\ gotten' = gotten \ {ev.evicted}
           ELSE /\ n \in BoxNew(ev.l, ev.m)
                /\ LET st == Cache_insert_store(ev.l, ev.m, key, elem, n) IN
                   /\ map' = st.m
                   /\ list' = Collect(st.l, map')
                /\ status' = "ok"
                /\ lru' = <<key>> \o Without(lru1, key)
                /\ gotten' = gotten \ {ev.evicted, key}
        /\ last' = Record("insert", map[key] # NoEntry,
                          AtCapacity(list, cap))
  /\ hist' = IF hist.clean /\ \A i \in 1..Len(hist.ins) : hist.ins[i][1] # key
             THEN [hist EXCEPT !.ins = Append(@, <<key, elem>>)]
             ELSE Dirty
  /\ UNCHANGED cap

Get(key) ==
  /\ status = "ok"
  /\ LET g == Cache_get(list, map, key)
         hit == map[key] # NoEntry
     IN /\ list' = Collect(g.l, map)
        /\ status' = Status(g.panic)
        /\ lru' = IF hit THEN <<key>> \o Without(lru, key) ELSE lru
        /\ gotten' = IF hit THEN gotten \cup {key} ELSE gotten
        /\ last' = Record("get", hit, FALSE)
  /\ hist' = Dirty
  /\ UNCHANGED <<map, cap>>

Remove(key) ==
  /\ status = "ok"
  /\ LET r == Cache_remove(list, map, key)
     IN /\ map' = r.m
        /\ list' = Collect(r.l, map')
        /\ status' = Status(r.panic)
        /\ lru' = Without(lru, key)
        /\ gotten' = gotten \ {key}
        /\ last' = Record("remove", map[key] # NoEntry, FALSE)
  /\ hist' = Dirty
  /\ UNCHANGED cap

InsertOp == \E k \in Keys, v \in Vals, n \in Heap : Insert(k, v, n)

GetOp == \E k \in Keys : Get(k)

RemoveOp == \E k \in Keys : Remove(k)

Next == InsertOp \/ GetOp \/ RemoveOp

Spec == Init /\ [][Next]_vars

\* ---- the cache against a reference LRU ----
\*
\* Only insert of keys that are not in the map, and get.  lru is the
\* reference: a sequence of <<key, value>>, the latest inserted or hit first,
\* kept by the operators below without looking at the list; gotten is as in
\* Spec, hist is unused.

Range(s) == {s[i] : i \in 1..Len(s)}

RefKeys(r) == [i \in 1..Len(r) |-> r[i][1]]

RefInsert(r, c, key, elem) ==
  <<<<key, elem>>>> \o (IF Len(r) >= c THEN SubSeq(r, 1, Len(r) - 1) ELSE r)

RefGet(r, key) ==
  IF \E i \in 1..Len(r) : r[i][1] = key
  THEN (CHOOSE p \in Range(r) : p[1] = key)[2]
  ELSE NoVal

RefHit(r, key) ==
  IF \E i \in 1..Len(r) : r[i][1] = key
  THEN LET p == CHOOSE q \in Range(r) : q[1] = key
       IN <<p>> \o SelectSeq(r, LAMBDA q : q # p)
  ELSE r

RefOldest(r) == IF r = <<>> THEN NoData ELSE r[Len(r)][1]

InsertNew(key, elem, n) ==
  /\ status = "ok"
  /\ map[key] = NoEntry
  /\ LET ev == Cache_insert_evict(list, map, cap)
     IN IF ev.panic # "none"
        THEN /\ status' = ev.panic
             /\ map' = ev.m
             /\ list' = Collect(ev.l, map')
        ELSE /\ n \in BoxNew(ev.l, ev.m)
             /\ LET st == Cache_insert_store(ev.l, ev.m, key, elem, n) IN
                /\ map' = st.m
                /\ list' = Collect(st.l, map')
             /\ status' = "ok"
  /\ lru' = RefInsert(lru, cap, key, elem)
  /\ gotten' = gotten \cap Range(RefKeys(lru'))
  /\ last' = Record("insert", FALSE, AtCapacity(list, cap))
  /\ UNCHANGED <<cap, hist>>

GetRef(key) ==
  /\ status = "ok"
  /\ LET g == Cache_get(list, map, key)
     IN /\ list' = Collect(g.l, map)
        /\ status' = Status(g.panic)
  /\ lru' = RefHit(lru, key)
  /\ gotten' = IF map[key] # NoEntry THEN gotten \cup {key} ELSE gotten
  /\ last' = Record("get", map[key] # NoEntry, FALSE)
  /\ UNCHANGED <<map, cap, hist>>

InsertNewOp == \E k \in Keys, v \in Vals, n \in Heap : InsertNew(k, v, n)

GetRefOp == \E k \in Keys : GetRef(k)

RefNext == InsertNewOp \/ GetRefOp

RefSpec == Init /\ [][RefNext]_vars

\* ---- the list on its own: a caller that keeps the handles ----
\*
\* The payloads are the elements of Keys, no two of them in the list at the
\* same time.  map is the caller's table of handles (val is unused); cap, lru
\* and gotten are unused; hist.ins is the elements inserted and not yet
\* returned, oldest first, while only insert and remove_last have run
\* (hist.clean).

\* node h is allocated, on the forward chain from the sentinel, and carries e
NodeLinked(l, h, e) ==
  /\ h \in l.alloc
  /\ h \in Chain(l.next, l.next[HEAD], {})
  /\ l.data[h] = e

\* a handle is used only while its node is linked: the caller forgets the
\* handles of the nodes that are not
Keep(l, m) ==
  [e \in Keys |-> IF m[e] # NoEntry /\ NodeLinked(l, m[e].h, e)
                  THEN m[e] ELSE NoEntry]

\* the payloads met on the forward chain from node n, front first
RECURSIVE Payloads(_, _, _)
Payloads(l, n, fuel) ==
  IF n = NULL \/ fuel = 0 THEN <<>>
  ELSE (IF l.data[n] # NoData THEN <<l.data[n]>> ELSE <<>>)
         \o Payloads(l, l.next[n], fuel - 1)

Order(l) == Payloads(l, l.next[HEAD], MaxNodes)

\* where element e stands in the order s (front first)
Position(s, e) ==
  IF e \notin Range(s) THEN "absent"
  ELSE IF Len(s) = 1 THEN "sole"
  ELSE IF s[1] = e THEN "front"
  ELSE IF s[Len(s)] = e THEN "back"
  ELSE "middle"

\* last, for a call on the list: pos is where its element stood before it
ListRecord(op, pos) == [op |-> op, pos |-> pos]

ListInit ==
  /\ list = LRUList_new
  /\ map = [e \in Keys |-> NoEntry]
  /\ cap = 0
  /\ status = "ok"
  /\ lru = <<>>
  /\ gotten = {}
  /\ hist = [clean |-> TRUE, ins |-> <<>>]
  /\ last = ListRecord("new", "absent")

ListInsert(elem, n) ==
  /\ status = "ok"
  /\ map[elem] = NoEntry
  /\ LRUList_count(list) < MaxNodes
  /\ n \in BoxNew(list, map)
  /\ LET ins == LRUList_insert(list, n, elem)
     IN /\ map' = Keep(ins.l, [map EXCEPT ![elem] = [val |-> NoVal, h |-> n]])
        /\ list' = Collect(ins.l, map')
  /\ status' = "ok"
  /\ hist' = IF hist.clean THEN [hist EXCEPT !.ins = Append(@, elem)]
             ELSE Dirty
  /\ last' = ListRecord("insert", "absent")
  /\ UNCHANGED <<cap, lru, gotten>>

ListRemoveLast ==
  /\ status = "ok"
  /\ LET rl == LRUList_remove_last(list)
     IN /\ map' = Keep(rl.l, map)
        /\ list' = Collect(rl.l, map')
        /\ status' = Status(rl.panic)
  /\ hist' = IF ~hist.clean THEN Dirty
             ELSE IF hist.ins = <<>> THEN hist
             ELSE [hist EXCEPT !.ins = Tail(@)]
  /\ last' = ListRecord("remove_last",
                        IF Len(Order(list)) = 0 THEN "absent"
                        ELSE IF Len(Order(list)) = 1 THEN "sole" ELSE "back")
  /\ UNCHANGED <<cap, lru, gotten>>

ListRemove(elem) ==
  /\ status = "ok"
  /\ map[elem] # NoEntry
  /\ LET rm == LRUList_remove(list, map[elem].h)
     IN /\ map' = Keep(rm.l, [map EXCEPT ![elem] = NoEntry])
        /\ list' = Collect(rm.l, map')
        /\ status' = Status(rm.panic)
  /\ hist' = Dirty
  /\ last' = ListRecord("remove", Position(Order(list), elem))
  /\ UNCHANGED <<cap, lru, gotten>>

ListReinsertFront(elem) ==
  /\ status = "ok"
  /\ map[elem] # NoEntry
  /\ LET rf == LRUList_reinsert_front(list, map[elem].h)
     IN /\ map' = Keep(rf.l, map)
        /\ list' = Collect(rf.l, map')
        /\ status' = Status(rf.panic)
  /\ hist' = Dirty
  /\ last' = ListRecord("reinsert_front", Position(Order(list), elem))
  /\ UNCHANGED <<cap, lru, gotten>>

ListInsertOp == \E e \in Keys, n \in Heap : ListInsert(e, n)

ListRemoveOp == \E e \in Keys : ListRemove(e)

ListReinsertFrontOp == \E e \in Keys : ListReinsertFront(e)

ListNext ==
  ListInsertOp \/ ListRemoveLast \/ ListRemoveOp \/ ListReinsertFrontOp

ListSpec == ListInit /\ [][ListNext]_vars

\* the list without remove(handle)
NoRemoveNext == ListInsertOp \/ ListRemoveLast \/ ListReinsertFrontOp

NoRemoveSpec == ListInit /\ [][NoRemoveNext]_vars

\* what successive remove_last calls on l return, until one returns nothing
RECURSIVE Drain(_, _)
Drain(l, fuel) ==
  IF fuel = 0 THEN <<>>
  ELSE LET rl == LRUList_remove_last(l)
       IN IF rl.ret = NoData \/ rl.panic # "none" THEN <<>>
          ELSE <<rl.ret>> \o Drain(rl.l, fuel - 1)

RECURSIVE Reverse(_)
Reverse(s) == IF s = <<>> THEN <<>> ELSE Reverse(Tail(s)) \o <<Head(s)>>

\* the nodes of l that are linked: allocated, on the forward chain, with a
\* payload
LinkedNodes(l) ==
  {n \in Chain(l.next, l.next[HEAD], {}) : n \in l.alloc /\ l.data[n] # NoData}

\* the nodes met by following next from node n, at most fuel of them
RECURSIVE NodeSeq(_, _, _)
NodeSeq(l, n, fuel) ==
  IF n = NULL \/ fuel = 0 THEN <<>>
  ELSE <<n>> \o NodeSeq(l, l.next[n], fuel - 1)

\* ---- what the claims speak of ----

\* the key Cache::insert takes out of the list when called in this state
Evicted == Cache_insert_evict(list, map, cap).evicted

\* the nodes on the forward chain from the sentinel
Linked == Chain(list.next, list.next[HEAD], {})

\* the payload of the first node on the forward chain that still has one
RECURSIVE FirstKey(_, _, _)
FirstKey(l, n, fuel) ==
  IF n = NULL \/ fuel = 0 THEN NoData
  ELSE IF l.data[n] # NoData THEN l.data[n]
       ELSE FirstKey(l, l.next[n], fuel - 1)

FrontKey == FirstKey(list, list.next[HEAD], MaxNodes)

Min(a, b) == IF a < b THEN a ELSE b

\* ---- claims ----

\* C1: an insert made at capacity evicts: remove_last returns a key that is
\* in the map, so no insert ends in the "could not remove_last(); bug!" panic
\* or in a failed map.remove assertion.
C1_EvictionSucceeds == last.op = "insert" => status = "ok"

\* C2: whenever insert evicts an entry of the map, that entry is the live key
\* whose latest insert or get-hit is the oldest.
C2_EvictsOldest ==
  [][\A k \in Keys, v \in Vals, n \in Heap :
       Insert(k, v, n) =>
         ((Evicted # NoData /\ map[Evicted] # NoEntry) => Evicted = Oldest)]_vars

\* C3: between calls, count() equals the number of keys in the map.
C3_CountIsLive == status = "ok" => Cache_count = Cardinality(Live)

\* C4: count() and the number of map entries never exceed cap(), and cap() is
\* positive and never changes.
C4_WithinCapacity ==
  /\ [](Cache_count <= Cache_cap /\ Cardinality(Live) <= Cache_cap
          /\ Cache_cap > 0)
  /\ [][cap' = cap]_vars

C4_Witness ==
  /\ last.op = "insert" /\ last.full /\ status = "ok"
  /\ Cache_count = cap /\ Cardinality(Live) = cap

\* C5: between calls, every key of the map has exactly one linked node with
\* that payload, and every linked node carries a key of the map.
C5_OneToOne ==
  status = "ok" =>
    /\ \A k \in Live : Cardinality({n \in Linked : list.data[n] = k}) = 1
    /\ \A n \in Linked : list.data[n] \in Live

\* C6: insert(k, v) of a key that is not in the cache, followed at once by
\* get(k), returns v.
C6_InsertThenGet ==
  [][\A k \in Keys, v \in Vals, n \in Heap :
       (Insert(k, v, n) /\ map[k] = NoEntry) =>
         (status' = "ok" /\ Cache_get(list', map', k).res = v)]_vars

\* C7: after n inserts of distinct keys into a new cache and nothing else,
\* exactly the last min(n, cap) keys are live with their values, count() is
\* min(n, cap), and get on every earlier key returns nothing.
C7_EvictionOrder ==
  hist.clean =>
    LET n == Len(hist.ins)
        m == Min(n, cap)
    IN /\ status = "ok"
       /\ Cache_count = m
       /\ Live = {hist.ins[i][1] : i \in (n - m + 1)..n}
       /\ \A i \in (n - m + 1)..n : map[hist.ins[i][1]].val = hist.ins[i][2]
       /\ \A i \in 1..(n - m) : Cache_get(list, map, hist.ins[i][1]).res = NoVal

C7_Witness == hist.clean /\ Len(hist.ins) = cap + 1 /\ cap > 1

\* C8: a get(k) that hits makes k the most recently used key, and a later
\* insert evicts k only when every other live key was inserted or hit after
\* that get.
C8_Promotion ==
  [][/\ \A k \in Keys :
          (Get(k) /\ map[k] # NoEntry) => (status' = "ok" /\ FrontKey' = k)
     /\ \A k \in Keys, v \in Vals, n \in Heap :
          Insert(k, v, n) => (Evicted \in gotten => Evicted = Oldest)]_vars

\* C9: remove(k) of a live key returns its value and lowers count() by one;
\* a get(k) right after returns nothing, and a second remove(k) right after
\* returns nothing and leaves count() as it is.
C9_RemoveOnce ==
  [][\A k \in Keys :
       (Remove(k) /\ map[k] # NoEntry) =>
         /\ status' = "ok"
         /\ Cache_remove(list, map, k).res = map[k].val
         /\ Cache_count' = Cache_count - 1
         /\ Cache_get(list', map', k).res = NoVal
         /\ Cache_remove(list', map', k).res = NoVal
         /\ Cache_remove(list', map', k).l.count = Cache_count']_vars

\* C10: get and remove of a key that is not in the map return nothing, do not
\* fail, and leave the map, the list and count() as they were.
C10_MissNoEffect ==
  [][/\ \A k \in Keys :
          (Get(k) /\ map[k] = NoEntry) =>
            /\ Cache_get(list, map, k).res = NoVal
            /\ status' = "ok" /\ map' = map /\ list' = list
     /\ \A k \in Keys :
          (Remove(k) /\ map[k] = NoEntry) =>
            /\ Cache_remove(list, map, k).res = NoVal
            /\ status' = "ok" /\ map' = map /\ list' = list]_vars

C10_Witness ==
  /\ last.op \in {"get", "remove"} /\ ~last.live
  /\ status = "ok" /\ Cache_count > 0

\* C11: remove(handle) of a linked node takes the node off the forward chain:
\* the chain then carries the other elements in the order they had, the
\* successor's prev is the node's predecessor, the sentinel's prev is the
\* predecessor when the node was the back (nothing when it was alone), and
\* successive remove_last calls return the other elements, oldest first.
C11_RemoveUnlinks ==
  [][\A e \in Keys :
       ListRemove(e) =>
         LET h == map[e].h
             nx == list.next[h]
             pv == list.prev[h]
             rest == Without(Order(list), e)
             after == LRUList_remove(list, h).l
         IN /\ h \notin Chain(after.next, after.next[HEAD], {})
            /\ Order(after) = rest
            /\ nx # NULL => after.prev[nx] = pv
            /\ nx = NULL =>
                 after.prev[HEAD] \in (IF pv = HEAD THEN {NULL, HEAD} ELSE {pv})
            /\ Drain(after, MaxNodes) = Reverse(rest)]_vars

\* C12: remove(handle) of a linked node returns the value given to the insert
\* that made the handle and lowers count() by exactly one, wherever the node
\* stands and whatever was removed before.
C12_RemoveReturns ==
  [][\A e \in Keys :
       ListRemove(e) =>
         LET rm == LRUList_remove(list, map[e].h)
         IN /\ rm.panic = "none"
            /\ rm.ret = e
            /\ LRUList_count(rm.l) = LRUList_count(list) - 1]_vars

\* C13: while only insert and remove_last have run on a new list, remove_last
\* returns the element inserted longest ago and lowers count() by one, so n
\* calls after n inserts return the elements in insertion order and bring
\* count() to 0; on the empty list it returns nothing and count() stays 0.
C13_RemoveLastFifo ==
  /\ [](hist.clean => status = "ok" /\ LRUList_count(list) = Len(hist.ins))
  /\ [][(ListRemoveLast /\ hist.clean) =>
          LET rl == LRUList_remove_last(list)
          IN /\ rl.panic = "none"
             /\ hist.ins # <<>> =>
                  /\ rl.ret = Head(hist.ins)
                  /\ LRUList_count(rl.l) = LRUList_count(list) - 1
             /\ hist.ins = <<>> =>
                  /\ rl.ret = NoData
                  /\ LRUList_count(rl.l) = 0]_vars

C13_Witness ==
  /\ hist.clean /\ last.op = "remove_last" /\ last.pos = "back"
  /\ Len(hist.ins) = MaxNodes - 1 /\ LRUList_count(list) = MaxNodes - 1

\* C14: reinsert_front(handle) of a linked node, wherever it stands, makes
\* it the front element, keeps the order of the others and count(), and
\* leaves a list from which successive remove_last calls return the elements
\* in the new order, back first; on the front node the order stays as it is.
C14_ReinsertFront ==
  [][\A e \in Keys :
       ListReinsertFront(e) =>
         LET rf == LRUList_reinsert_front(list, map[e].h)
             new == <<e>> \o Without(Order(list), e)
         IN /\ rf.panic = "none"
            /\ Order(rf.l) = new
            /\ LRUList_count(rf.l) = LRUList_count(list)
            /\ Drain(rf.l, MaxNodes) = Reverse(new)]_vars

\* C15: between calls on the list, the prev of every linked node is a linked
\* node or the sentinel, and the prev of the sentinel is a linked node, the
\* sentinel or nothing: no back-reference points at a removed or freed node.
C15_NoDanglingBack ==
  status = "ok" =>
    /\ \A n \in LinkedNodes(list) : list.prev[n] \in LinkedNodes(list) \cup {HEAD}
    /\ list.prev[HEAD] \in LinkedNodes(list) \cup {HEAD, NULL}

\* l has no front node and no back element, count() is 0, remove_last
\* returns nothing, and an insert makes its element both front and back
BothEndsEmpty(l) ==
  /\ l.next[HEAD] = NULL
  /\ l.prev[HEAD] \in {NULL, HEAD}
  /\ LRUList_count(l) = 0
  /\ LET rl == LRUList_remove_last(l)
     IN rl.panic = "none" /\ rl.ret = NoData /\ LRUList_count(rl.l) = 0
  /\ \A n \in Heap \ l.alloc :
       LET ins == LRUList_insert(l, n, 1).l
       IN /\ ins.next[HEAD] = n /\ ins.prev[HEAD] = n
          /\ ins.next[n] = NULL /\ ins.prev[n] = HEAD
          /\ LRUList_count(ins) = 1

\* C16: when the list holds one element, removing it, by remove(handle) or by
\* remove_last, leaves the sentinel without a front node and without a back
\* element, count() at 0, remove_last returning nothing, and the next insert
\* making its element both front and back.
C16_SoleRemoved ==
  [][/\ \A e \in Keys :
          (ListRemove(e) /\ Order(list) = <<e>>) =>
            LET rm == LRUList_remove(list, map[e].h)
            IN rm.panic = "none" /\ rm.ret = e /\ BothEndsEmpty(rm.l)
     /\ (ListRemoveLast /\ Len(Order(list)) = 1) =>
          LET rl == LRUList_remove_last(list)
          IN rl.panic = "none" /\ <<rl.ret>> = Order(list)
               /\ BothEndsEmpty(rl.l)]_vars

C18_HandlesLinked ==
  status = "ok" =>
    \A k \in Live :
      /\ map[k].h \in list.alloc
      /\ map[k].h \in LinkedNodes(list)
      /\ list.data[map[k].h] = k

\* C19: in runs of insert of keys that are not in the map and of get alone,
\* the cache does what a reference LRU of capacity cap() does: nothing
\* panics, the list carries the reference's keys in the reference's order,
\* count() is the reference's size, get of every key returns the reference's
\* value for it, and an insert at capacity evicts the reference's oldest key.
C19_RefinesLru ==
  /\ status = "ok"
  /\ Order(list) = RefKeys(lru)
  /\ Cache_count = Len(lru)
  /\ Live = Range(RefKeys(lru))
  /\ \A k \in Keys :
       /\ Cache_get(list, map, k).panic = "none"
       /\ Cache_get(list, map, k).res = RefGet(lru, k)
  /\ AtCapacity(list, cap) =>
       /\ Cache_insert_evict(list, map, cap).panic = "none"
       /\ Evicted = RefOldest(lru)

C19_Witness ==
  /\ last.op = "insert" /\ last.full /\ status = "ok" /\ cap > 1
  /\ gotten # {}

\* C20: in runs of insert, remove_last and reinsert_front alone, following
\* next from the sentinel visits exactly count() nodes, each allocated and
\* with a payload; the prev of each is the node before it (the sentinel for
\* the first); and while count() > 0 the sentinel's prev is the last of them.
C20_WellFormed ==
  LET c == NodeSeq(list, list.next[HEAD], MaxNodes + 1)
  IN /\ status = "ok"
     /\ Len(c) = LRUList_count(list)
     /\ \A i \in 1..Len(c) :
          /\ c[i] \in list.alloc /\ list.data[c[i]] # NoData
          /\ list.prev[c[i]] = IF i = 1 THEN HEAD ELSE c[i - 1]
     /\ LRUList_count(list) > 0 => list.prev[HEAD] = c[Len(c)]

C20_Witness ==
  /\ last.op = "reinsert_front" /\ last.pos = "back"
  /\ LRUList_count(list) = MaxNodes /\ status = "ok"

====
